---- MODULE Spec2Model ----
(***************************************************************************)
(* A model of the SPDY session layer of spdy-go.                           *)
(*                                                                         *)
(*   src/spdy/session.go   Session: the stream table, the stream-id        *)
(*                         allocator, the frame pump (run, processFrame)   *)
(*                         and the per-stream outbound pump (the goroutine *)
(*                         newStream starts).                              *)
(*   src/unnamed/part_000  StreamReader / StreamWriter (Send, SendHeaders, *)
(*                         writeFrame, Receive, Pipe).                     *)
(*                                                                         *)
(* session.go calls NewStream, stream.Input.WriteFrame/Close/Closed,       *)
(* stream.Output.Closed and Copy, none of which is in the source tree:     *)
(* those are modelled from the specification text (section 4) and named    *)
(* as such where they are defined.                                         *)
(*                                                                         *)
(* The Go code takes no lock.  The threads of control are the frame pump   *)
(* (run), one outbound pump per stream, and the application.  A thread's   *)
(* CloseStream is two steps, the table lookup and then the close+delete,   *)
(* so that another thread can run in between.  A specification either      *)
(* interleaves the threads at those steps (cfg.atomic = FALSE) or runs     *)
(* every handler to its end before the next one starts (cfg.atomic = TRUE),*)
(* it keeps the contents of the Readers' queues (cfg.queues = TRUE) or     *)
(* only whether each Reader is closed, and it keeps each operation's       *)
(* outcome in `last` (cfg.trace = TRUE) or only the histories.             *)
(***************************************************************************)
EXTENDS Naturals, Sequences, FiniteSets

(* ---------------------------------------------------------------- bounds *)

\* uint32 is modelled at IdBits bits: ids and counters are 0 .. 2^IdBits - 1
\* and "+ 2" wraps at 2^IdBits as the Go arithmetic wraps at 2^32.
IdBits == 3

\* Streams created (locally or remotely) in one behaviour.  Kept below
\* 2^(IdBits-1), so that from a fresh session (Init) the id counters never
\* reach the wrap; InitAged starts from a session that has used most ids.
MaxStreams == 2

\* Streams created in one behaviour of a specification that follows the
\* outbound pumps step by step or keeps the contents of the Readers' queues.
MaxStreamsDeep == 1

\* Frames the pump reads for registered streams in one behaviour.
MaxFrames == 2

\* Frames a StreamWriter writes in one behaviour: more than 2^IdBits, so that
\* nFramesSent comes back to 0.
MaxWire == 9

UintMod == 2 ^ IdBits

Ids == 0 .. (UintMod - 1)

\* The application threads that call OpenStream at the same time.
Threads == {"a", "b"}

(* ----------------------------------------------------------------- state *)

VARIABLES
    cfg,              \* what a behaviour covers: [atomic, trace, queues, streams, frames]
    app,              \* each application thread's position in OpenStream: [pc, id]
    sw,               \* a StreamWriter: [IsMine, nFramesSent]
    wire,             \* history: the frames that StreamWriter has written to the session
    Server,           \* Session.Server
    lastStreamIdOut,  \* Session.lastStreamIdOut
    lastStreamIdIn,   \* Session.lastStreamIdIn
    streams,          \* the keys of Session.streams
    closed,           \* Session.closed
    obj,              \* the Stream object last created under each id
    fp,               \* the frame pump's position: [pc, id]
    pump,             \* each stream's outbound pump goroutine's position
    last,             \* the last operation: its name, argument, result, frames written
    used,             \* history: ids ever registered
    opened,           \* history: ids returned by successful OpenStream calls
    arrived,          \* history: per id, frames the pump read that carry a registered id
    got,              \* history: per id, what the consumer's Receive returned
    pumpCloses,       \* history: per id, CloseStream calls of the pumps that returned nil
    nCreated,         \* history: number of streams created in this behaviour
    nRouted           \* history: number of frames routed into Readers

vars == <<cfg, app, sw, wire, Server, lastStreamIdOut, lastStreamIdIn, streams, closed, obj,
          fp, pump, last, used, opened, arrived, got, pumpCloses, nCreated, nRouted>>

hist == <<used, opened, arrived, got, pumpCloses, nCreated, nRouted>>

\* No thread is inside a handler.  With cfg.atomic a handler, once entered, runs
\* to its end before any other thread takes a step.
Quiet ==
    cfg.atomic =>
        /\ fp.pc \in {"start", "run", "stopped"}
        /\ \A id \in Ids : pump[id] \in {"none", "copy", "done"}

(* ------------------------------------------------------------ id allocator *)

isLocalId(id) == IF Server THEN id % 2 = 0 ELSE id % 2 # 0

nextIdOut ==
    IF lastStreamIdOut = 0
    THEN (IF Server THEN 2 ELSE 1)
    ELSE (lastStreamIdOut + 2) % UintMod

nextIdIn ==
    IF lastStreamIdIn = 0
    THEN (IF Server THEN 1 ELSE 2)
    ELSE (lastStreamIdIn + 2) % UintMod

(* ---------------------------------------------------------------- frames *)

\* processFrame tells SYN_STREAM from every other stream frame, and a stream
\* frame from a session-wide one (stream id 0): DATA stands for the former,
\* PING for the latter.  A frame is its kind, its stream id and its FIN flag.

\* The ids worth trying in a state: the registered ids, the closed ones and
\* one that was never created; for a SYN_STREAM frame also the next remote id
\* and a remote id out of sequence.
SomeIds == (streams \cup used \cup {nextIdOut}) \ {0}

SynIds == (SomeIds \cup {nextIdIn, (nextIdIn + 2) % UintMod}) \ {0}

\* The frames ReadFrame can return.
Frames ==
    [kind : {"SYN_STREAM"}, id : SynIds, fin : BOOLEAN]
        \cup [kind : {"DATA"}, id : SomeIds, fin : BOOLEAN]
        \cup [kind : {"PING", "SYN_STREAM"}, id : {0}, fin : {FALSE}]

\* A message of a Reader's queue.
Msg(f) == [kind |-> f.kind, fin |-> f.fin]

RstStreamFrame(id) == [kind |-> "RST_STREAM", id |-> id, status |-> "ProtocolError"]

GoAwayFrame == [kind |-> "GOAWAY", id |-> 0, status |-> "none"]

\* A frame Copy takes from stream.Output.
OutFrame(id) == [kind |-> "OUT", id |-> id, status |-> "none"]

\* What an operation leaves in `last`: its name and argument (for processFrame
\* the frame's kind and id), whether it failed, the frames it wrote to the
\* transport and whether those writes succeeded.  A specification whose
\* properties are about the histories only does not keep it (cfg.trace).
Op(name, id, err, wrote, wok) ==
    IF cfg.trace
    THEN [op |-> name, id |-> id, err |-> err, wrote |-> wrote, wok |-> wok]
    ELSE [op |-> "", id |-> 0, err |-> FALSE, wrote |-> <<>>, wok |-> TRUE]

(* ---------------------------------------------------------- stream objects *)

\* NewStream(id, local): both halves open, nothing queued.
NewStream(local) ==
    [IsMine |-> local, inClosed |-> FALSE, outClosed |-> FALSE, q |-> <<>>]

\* A stream closed on both sides and drained.
DeadStream(local) ==
    [IsMine |-> local, inClosed |-> TRUE, outClosed |-> TRUE, q |-> <<>>]

\* stream.Input.WriteFrame(frame): "ok" (queued), "EOF" (queued, and the frame
\* closed the inbound direction), "error" (the Reader is closed: nothing queued).
InputWriteFrameResult(s, f) ==
    IF s.inClosed THEN "error" ELSE IF f.fin THEN "EOF" ELSE "ok"

InputWriteFrame(s, f) ==
    IF s.inClosed
    THEN s
    ELSE [s EXCEPT !.q = IF cfg.queues THEN Append(@, Msg(f)) ELSE @,
                  !.inClosed = f.fin]

\* The history of a frame that carries the id of a registered stream, whose
\* earlier frames are `before`.
Routed(id, before, f) ==
    /\ cfg.queues => nRouted < cfg.frames
    /\ arrived' = [arrived EXCEPT ![id] = IF cfg.queues THEN Append(before, Msg(f)) ELSE @]
    /\ nRouted' = IF cfg.queues THEN nRouted + 1 ELSE nRouted

\* stream.Input.Close()
InputClose(s) == [s EXCEPT !.inClosed = TRUE]

(* --------------------------------------------------------------- newStream *)

\* The id checks of newStream.
newStreamValid(id, local) ==
    IF local
    THEN isLocalId(id) /\ id = nextIdOut
    ELSE ~isLocalId(id) /\ id = nextIdIn

\* newStream returns a stream and a nil error.
newStreamOk(id, local) == newStreamValid(id, local) /\ id \notin streams

\* The registration of newStream, with `s` the state of the new object once
\* the calling step is over.  The outbound pump goroutine starts at Copy.
\* An id comes up for registration a second time only once its counter has
\* wrapped; objects are kept per id, so that is followed only when the pump
\* of the stream that had the id before has ended.
Register(id, local, s) ==
    /\ nCreated < cfg.streams
    /\ pump[id] \in {"none", "done"}
    /\ streams' = streams \cup {id}
    /\ obj' = [obj EXCEPT ![id] = s]
    /\ IF local
       THEN lastStreamIdOut' = id /\ UNCHANGED lastStreamIdIn
       ELSE lastStreamIdIn' = id /\ UNCHANGED lastStreamIdOut
    /\ pump' = [pump EXCEPT ![id] = "copy"]
    /\ used' = used \cup {id}
    /\ got' = [got EXCEPT ![id] = <<>>]
    /\ nCreated' = nCreated + 1

(* -------------------------------------------------------------- OpenStream *)

OpenStream ==
    /\ Quiet
    /\ LET newId == nextIdOut IN
       IF newStreamOk(newId, TRUE)
       THEN /\ Register(newId, TRUE, NewStream(TRUE))
            /\ last' = Op("OpenStream", newId, FALSE, <<>>, TRUE)
            /\ opened' = Append(opened, newId)
            /\ arrived' = [arrived EXCEPT ![newId] = <<>>]
            /\ UNCHANGED <<cfg, app, sw, wire, Server, closed, fp, pumpCloses, nRouted>>
       ELSE /\ last' = Op("OpenStream", newId, TRUE, <<>>, TRUE)
            /\ UNCHANGED <<cfg, app, sw, wire, Server, lastStreamIdOut, lastStreamIdIn, streams,
                           closed, obj, fp, pump, hist>>

(* ------------------------------------------------ OpenStream, step by step *)

\* OpenStream and newStream take no lock: when application threads call
\* OpenStream at the same time, each read and each write of the session's
\* fields is a step of its own.  app[t] holds thread t's place and its newId.

\* newId := session.nextIdOut()
OpenBegin(t) ==
    /\ app[t].pc = "idle"
    /\ nCreated < cfg.streams
    /\ app' = [app EXCEPT ![t] = [pc |-> "valid", id |-> nextIdOut]]
    /\ last' = Op("OpenBegin", nextIdOut, FALSE, <<>>, TRUE)
    /\ UNCHANGED <<cfg, sw, wire, Server, lastStreamIdOut, lastStreamIdIn, streams, closed,
                   obj, fp, pump, hist>>

\* newStream: "Is this ID valid?", which reads lastStreamIdOut once more.
OpenValid(t) ==
    /\ app[t].pc = "valid"
    /\ app' = [app EXCEPT ![t] = IF newStreamValid(app[t].id, TRUE)
                                 THEN [@ EXCEPT !.pc = "exists"]
                                 ELSE [pc |-> "idle", id |-> 0]]
    /\ last' = Op("OpenValid", app[t].id, ~newStreamValid(app[t].id, TRUE), <<>>, TRUE)
    /\ UNCHANGED <<cfg, sw, wire, Server, lastStreamIdOut, lastStreamIdIn, streams, closed,
                   obj, fp, pump, hist>>

\* newStream: "Is this ID already in use?"
OpenExists(t) ==
    /\ app[t].pc = "exists"
    /\ app' = [app EXCEPT ![t] = IF app[t].id \in streams
                                 THEN [pc |-> "idle", id |-> 0]
                                 ELSE [@ EXCEPT !.pc = "store"]]
    /\ last' = Op("OpenExists", app[t].id, app[t].id \in streams, <<>>, TRUE)
    /\ UNCHANGED <<cfg, sw, wire, Server, lastStreamIdOut, lastStreamIdIn, streams, closed,
                   obj, fp, pump, hist>>

\* newStream: stream := NewStream(id, local); session.streams[id] = stream
OpenStore(t) ==
    /\ app[t].pc = "store"
    /\ streams' = streams \cup {app[t].id}
    /\ obj' = [obj EXCEPT ![app[t].id] = NewStream(TRUE)]
    /\ used' = used \cup {app[t].id}
    /\ got' = [got EXCEPT ![app[t].id] = <<>>]
    /\ arrived' = [arrived EXCEPT ![app[t].id] = <<>>]
    /\ app' = [app EXCEPT ![t].pc = "mark"]
    /\ last' = Op("OpenStore", app[t].id, FALSE, <<>>, TRUE)
    /\ UNCHANGED <<cfg, sw, wire, Server, lastStreamIdOut, lastStreamIdIn, closed, fp, pump,
                   opened, pumpCloses, nCreated, nRouted>>

\* newStream: session.lastStreamIdOut = id
OpenMark(t) ==
    /\ app[t].pc = "mark"
    /\ lastStreamIdOut' = app[t].id
    /\ app' = [app EXCEPT ![t].pc = "return"]
    /\ last' = Op("OpenMark", app[t].id, FALSE, <<>>, TRUE)
    /\ UNCHANGED <<cfg, sw, wire, Server, lastStreamIdIn, streams, closed, obj, fp, pump, hist>>

\* newStream starts the outbound pump and returns the stream, which
\* OpenStream returns to its caller.
OpenReturn(t) ==
    /\ app[t].pc = "return"
    /\ pump' = [pump EXCEPT ![app[t].id] = "copy"]
    /\ opened' = Append(opened, app[t].id)
    /\ nCreated' = nCreated + 1
    /\ app' = [app EXCEPT ![t] = [pc |-> "idle", id |-> 0]]
    /\ last' = Op("OpenStream", app[t].id, FALSE, <<>>, TRUE)
    /\ UNCHANGED <<cfg, sw, wire, Server, lastStreamIdOut, lastStreamIdIn, streams, closed,
                   obj, fp, used, arrived, got, pumpCloses, nRouted>>

(* ------------------------------------------------------------- CloseStream *)

\* The lookup of CloseStream: it goes on to close and delete iff this holds.
CloseStreamExists(id) == id \in streams

\* CloseStream that forgets stream.Input.Close().
CloseStreamDeleteOnly(id) ==
    /\ obj' = obj
    /\ streams' = streams \ {id}

\* CloseStream that empties the table.
CloseStreamDeleteAll(id) ==
    /\ obj' = [obj EXCEPT ![id] = InputClose(@)]
    /\ streams' = {}

\* The rest of CloseStream: stream.Input.Close(); delete(session.streams, id).
CloseStreamDelete(id) ==
    /\ obj' = [obj EXCEPT ![id] = InputClose(@)]
    /\ streams' = streams \ {id}

\* Session.CloseStream(id), called by the application.
CloseStream(id) ==
    /\ Quiet
    /\ IF CloseStreamExists(id)
       THEN /\ CloseStreamDelete(id)
            /\ last' = Op("CloseStream", id, FALSE, <<>>, TRUE)
            /\ UNCHANGED <<cfg, app, sw, wire, Server, lastStreamIdOut, lastStreamIdIn, closed,
                           fp, pump, hist>>
       ELSE /\ last' = Op("CloseStream", id, TRUE, <<>>, TRUE)
            /\ UNCHANGED <<cfg, app, sw, wire, Server, lastStreamIdOut, lastStreamIdIn, streams,
                           closed, obj, fp, pump, hist>>

(* ------------------------------------------------------------------- Close *)

\* Session.NStreams()
NStreams == Cardinality(streams)

\* Close() that closes the Readers and leaves the table as it is.
CloseAllKeepsTable ==
    /\ closed' = TRUE
    /\ obj' = [id \in Ids |-> IF id \in streams THEN InputClose(obj[id]) ELSE obj[id]]
    /\ streams' = streams

\* Session.Close(): the flag, then CloseStream for every registered id.
CloseAll ==
    /\ closed' = TRUE
    /\ obj' = [id \in Ids |-> IF id \in streams THEN InputClose(obj[id]) ELSE obj[id]]
    /\ streams' = {}

Close ==
    /\ Quiet
    /\ CloseAll
    /\ last' = Op("Close", 0, FALSE, <<>>, TRUE)
    /\ UNCHANGED <<cfg, app, sw, wire, Server, lastStreamIdOut, lastStreamIdIn, fp, pump, hist>>

(* ---------------------------------------------------------- the frame pump *)

\* run(), before the loop, when the session has no handler: it writes a
\* GOAWAY frame, and returns if that write fails.
RunStart(wok) ==
    /\ Quiet
    /\ fp.pc = "start"
    /\ fp' = [fp EXCEPT !.pc = IF wok THEN "run" ELSE "stopped"]
    /\ last' = Op("run", 0, ~wok, <<GoAwayFrame>>, wok)
    /\ UNCHANGED <<cfg, app, sw, wire, Server, lastStreamIdOut, lastStreamIdIn, streams, closed,
                   obj, pump, hist>>

\* run() that returns on a failed ReadFrame without Close().
ReadErrorReturnsOnly ==
    /\ Quiet
    /\ fp.pc = "run"
    /\ fp' = [fp EXCEPT !.pc = "stopped"]
    /\ last' = Op("ReadError", 0, TRUE, <<>>, TRUE)
    /\ UNCHANGED <<cfg, app, sw, wire, Server, lastStreamIdOut, lastStreamIdIn, streams,
                   closed, obj, pump, hist>>

\* run(): ReadFrame fails; Close() and return.
ReadError ==
    /\ Quiet
    /\ fp.pc = "run"
    /\ CloseAll
    /\ fp' = [fp EXCEPT !.pc = "stopped"]
    /\ last' = Op("ReadError", 0, TRUE, <<>>, TRUE)
    /\ UNCHANGED <<cfg, app, sw, wire, Server, lastStreamIdOut, lastStreamIdIn, pump, hist>>

\* The table lookup that also finds the streams already removed.
RegisteredEver(id) == id \in streams \cup used

\* _, exists := session.streams[streamId]
Registered(id) == id \in streams

\* processFrame: the answer to a frame that is refused.
Reset(f, wok) ==
    /\ last' = Op(f.kind, f.id, TRUE, <<RstStreamFrame(f.id)>>, wok)
    /\ IF f.id \in streams
       THEN Routed(f.id, arrived[f.id], f)
       ELSE UNCHANGED <<arrived, nRouted>>
    /\ UNCHANGED <<cfg, app, sw, wire, Server, lastStreamIdOut, lastStreamIdIn, streams, closed,
                   obj, fp, pump, used, opened, got, pumpCloses, nCreated>>

\* Where processFrame stands once Input.WriteFrame has returned `res` for
\* stream `id`: "EOF" goes on to test Output.Closed(); an error goes into
\* CloseStream, whose lookup finds the stream this step has just looked up.
AfterWrite(id, res) ==
    IF res = "EOF" THEN [pc |-> "chkOut", id |-> id]
    ELSE IF res = "error" THEN [pc |-> "del", id |-> id]
    ELSE [pc |-> "run", id |-> 0]

\* processFrame from the lookup on, for a frame whose stream is registered:
\* stream.Input.WriteFrame(frame).  `wrote`: what processFrame has written
\* before.
Deliver(f, wrote) ==
    /\ obj' = [obj EXCEPT ![f.id] = InputWriteFrame(@, f)]
    /\ fp' = AfterWrite(f.id, InputWriteFrameResult(obj[f.id], f))
    /\ Routed(f.id, arrived[f.id], f)
    /\ last' = Op(f.kind, f.id, InputWriteFrameResult(obj[f.id], f) = "error", wrote, TRUE)
    /\ UNCHANGED <<cfg, app, sw, wire, Server, lastStreamIdOut, lastStreamIdIn, streams,
                   closed, pump, used, opened, got, pumpCloses, nCreated>>

\* The SYN_STREAM branch without its return: after the RST_STREAM frame the
\* frame goes on to the lookup.
SynRefusedNoReturn(f, wok) ==
    IF Registered(f.id)
    THEN wok /\ Deliver(f, <<RstStreamFrame(f.id)>>)
    ELSE Reset(f, wok)

\* newStream that has moved the high-water mark before it fails.
SynRefusedMarksId(f, wok) ==
    /\ last' = Op(f.kind, f.id, TRUE, <<RstStreamFrame(f.id)>>, wok)
    /\ lastStreamIdIn' = IF isLocalId(f.id) THEN lastStreamIdIn ELSE f.id
    /\ UNCHANGED <<cfg, app, sw, wire, Server, lastStreamIdOut, streams, closed,
                   obj, fp, pump, hist>>

\* processFrame, newStream has failed: the RST_STREAM frame, and return.
SynRefused(f, wok) == Reset(f, wok)

\* processFrame(f), from ReadFrame's return to Input.WriteFrame's.
processFrame(f, wok) ==
    /\ Quiet
    /\ fp.pc = "run"
    /\ IF f.id # 0
       THEN IF f.kind = "SYN_STREAM"
            THEN IF ~newStreamOk(f.id, FALSE)
                 THEN SynRefused(f, wok)
                 ELSE /\ wok
                      /\ Register(f.id, FALSE, InputWriteFrame(NewStream(FALSE), f))
                      /\ fp' = AfterWrite(f.id, InputWriteFrameResult(NewStream(FALSE), f))
                      /\ Routed(f.id, <<>>, f)
                      /\ last' = Op(f.kind, f.id, FALSE, <<>>, TRUE)
                      /\ UNCHANGED <<cfg, app, sw, wire, Server, closed, opened, pumpCloses>>
            ELSE IF ~Registered(f.id)
                 THEN Reset(f, wok)
                 ELSE wok /\ Deliver(f, <<>>)
       ELSE /\ wok
            /\ last' = Op(f.kind, 0, FALSE, <<>>, TRUE)
            /\ UNCHANGED <<cfg, app, sw, wire, Server, lastStreamIdOut, lastStreamIdIn, streams,
                           closed, obj, fp, pump, hist>>

\* processFrame after io.EOF: if stream.Output.Closed(), CloseStream (lookup).
FpCheckOutput ==
    /\ fp.pc = "chkOut"
    /\ fp' = IF obj[fp.id].outClosed /\ CloseStreamExists(fp.id)
             THEN [fp EXCEPT !.pc = "del"]
             ELSE [pc |-> "run", id |-> 0]
    /\ last' = Op("FpCheckOutput", fp.id,
                  obj[fp.id].outClosed /\ ~CloseStreamExists(fp.id), <<>>, TRUE)
    /\ UNCHANGED <<cfg, app, sw, wire, Server, lastStreamIdOut, lastStreamIdIn, streams, closed,
                   obj, pump, hist>>

\* The frame pump's CloseStream, after its lookup: close, delete, return nil.
FpDelete ==
    /\ fp.pc = "del"
    /\ CloseStreamDelete(fp.id)
    /\ fp' = [pc |-> "run", id |-> 0]
    /\ pumpCloses' = [pumpCloses EXCEPT ![fp.id] = @ + 1]
    /\ last' = Op("FpDelete", fp.id, FALSE, <<>>, TRUE)
    /\ UNCHANGED <<cfg, app, sw, wire, Server, lastStreamIdOut, lastStreamIdIn, closed, pump,
                   used, opened, arrived, got, nCreated, nRouted>>

(* ------------------------------------------------------- the outbound pump *)

\* The outbound pump that answers a failed write with Close().
PumpWriteErrorFatal(id) ==
    /\ Quiet
    /\ pump[id] = "copy"
    /\ ~obj[id].outClosed
    /\ CloseAll
    /\ pump' = [pump EXCEPT ![id] = "chk"]
    /\ last' = Op("Copy", id, TRUE, <<OutFrame(id)>>, FALSE)
    /\ UNCHANGED <<cfg, app, sw, wire, Server, lastStreamIdOut, lastStreamIdIn, fp, hist>>

\* Copy(session, stream.Output) fails to write a frame of the stream to the
\* session: Copy ends with the error, and the goroutine calls CloseStream.
PumpWriteError(id) ==
    /\ Quiet
    /\ pump[id] = "copy"
    /\ ~obj[id].outClosed
    /\ pump' = [pump EXCEPT ![id] = IF CloseStreamExists(id) THEN "errDel" ELSE "chk"]
    /\ last' = Op("Copy", id, TRUE, <<OutFrame(id)>>, FALSE)
    /\ UNCHANGED <<cfg, app, sw, wire, Server, lastStreamIdOut, lastStreamIdIn, streams, closed,
                   obj, fp, hist>>

\* Copy returns nil: the Writer is closed.
PumpCopyEnd(id) ==
    /\ Quiet
    /\ pump[id] = "copy"
    /\ obj[id].outClosed
    /\ pump' = [pump EXCEPT ![id] = "chk"]
    /\ last' = Op("Copy", id, FALSE, <<>>, TRUE)
    /\ UNCHANGED <<cfg, app, sw, wire, Server, lastStreamIdOut, lastStreamIdIn, streams, closed,
                   obj, fp, hist>>

\* if stream.Input.Closed() { session.CloseStream(id) }: the test and the lookup.
PumpCheck(id) ==
    /\ pump[id] = "chk"
    /\ pump' = [pump EXCEPT ![id] =
                   IF obj[id].inClosed /\ CloseStreamExists(id) THEN "chkDel" ELSE "done"]
    /\ last' = Op("PumpCheck", id, obj[id].inClosed /\ ~CloseStreamExists(id), <<>>, TRUE)
    /\ UNCHANGED <<cfg, app, sw, wire, Server, lastStreamIdOut, lastStreamIdIn, streams, closed,
                   obj, fp, hist>>

\* An outbound pump's CloseStream, after its lookup: close, delete, return nil.
PumpDelete(id) ==
    /\ pump[id] \in {"errDel", "chkDel"}
    /\ CloseStreamDelete(id)
    /\ pump' = [pump EXCEPT ![id] = IF @ = "errDel" THEN "chk" ELSE "done"]
    /\ pumpCloses' = [pumpCloses EXCEPT ![id] = @ + 1]
    /\ last' = Op("PumpDelete", id, FALSE, <<>>, TRUE)
    /\ UNCHANGED <<cfg, app, sw, wire, Server, lastStreamIdOut, lastStreamIdIn, closed, fp,
                   used, opened, arrived, got, nCreated, nRouted>>

(* ------------------------------------------------- the stream's two users *)

\* The producer closes the Writer (stream.Output), on which Copy returns.
CloseOutput(id) ==
    /\ Quiet
    /\ pump[id] = "copy"
    /\ ~obj[id].outClosed
    /\ obj' = [obj EXCEPT ![id].outClosed = TRUE]
    /\ last' = Op("CloseOutput", id, FALSE, <<>>, TRUE)
    /\ UNCHANGED <<cfg, app, sw, wire, Server, lastStreamIdOut, lastStreamIdIn, streams, closed,
                   fp, pump, hist>>

\* The consumer takes the next message of the Reader's queue.
Receive(id) ==
    /\ Quiet
    /\ obj[id].q # <<>>
    /\ obj' = [obj EXCEPT ![id].q = Tail(@)]
    /\ got' = [got EXCEPT ![id] = Append(@, Head(obj[id].q))]
    /\ last' = Op("Receive", id, FALSE, <<>>, TRUE)
    /\ UNCHANGED <<cfg, app, sw, wire, Server, lastStreamIdOut, lastStreamIdIn, streams, closed,
                   fp, pump, used, opened, arrived, pumpCloses, nCreated, nRouted>>

\* What reader.data.Receive() returns on a queue closed and drained: no
\* message (nil) and the end-of-stream error.
MQReceiveAtEnd == [msg |-> "nil", err |-> "EOF"]

\* The record of a Receive that did not return: the consumer's thread has
\* panicked.
Panic == [kind |-> "panic", fin |-> FALSE]

\* The consumer of the stream's Reader has panicked.
Crashed(id) == got[id] # <<>> /\ got[id][Len(got[id])] = Panic

\* The return statement of StreamReader.Receive for what the queue gave it:
\* msg.(*streamMessage) panics unless msg holds a *streamMessage, whatever
\* err is.
ReceiveReturn(r) == IF r.msg = "nil" THEN Panic ELSE r.msg

\* StreamReader.Receive on a Reader whose queue is closed and drained.
ReceiveAtEnd(id) ==
    /\ Quiet
    /\ id \in used
    /\ obj[id].inClosed
    /\ obj[id].q = <<>>
    /\ ~Crashed(id)
    /\ got' = [got EXCEPT ![id] = Append(@, ReceiveReturn(MQReceiveAtEnd))]
    /\ last' = Op("Receive", id, TRUE, <<>>, TRUE)
    /\ UNCHANGED <<cfg, app, sw, wire, Server, lastStreamIdOut, lastStreamIdIn, streams, closed,
                   obj, fp, pump, used, opened, arrived, pumpCloses, nCreated, nRouted>>

(* ------------------------------------------------------- the StreamWriter *)

\* The header frame SendHeaders builds: a SYN_STREAM or SYN_REPLY frame while
\* nFramesSent is 0, a HEADERS frame otherwise; `final` sets its FIN flag.
HeaderFrame(w, final) ==
    [kind |-> IF w.nFramesSent = 0
              THEN (IF w.IsMine THEN "SYN_STREAM" ELSE "SYN_REPLY")
              ELSE "HEADERS",
     fin |-> final]

DataFrame == [kind |-> "DATA", fin |-> FALSE]

\* writeFrame that counts a frame the transport did not take.
writeFrameCountsAll(n, ok) == (n + 1) % UintMod

\* StreamWriter.writeFrame: nFramesSent after the call, `ok` telling whether
\* session.WriteFrame returned nil.
writeFrame(n, ok) == IF ok THEN (n + 1) % UintMod ELSE n

\* The frames on the transport after session.WriteFrame(frame).
Written(log, frame, ok) == IF ok THEN Append(log, frame) ELSE log

\* StreamWriter.SendHeaders(final); `ok`: the transport takes the frame.
SendHeaders(final, ok) ==
    /\ Len(wire) < MaxWire
    /\ wire' = Written(wire, HeaderFrame(sw, final), ok)
    /\ sw' = [sw EXCEPT !.nFramesSent = writeFrame(@, ok)]
    /\ last' = Op("SendHeaders", 0, ~ok, <<>>, ok)
    /\ UNCHANGED <<cfg, app, Server, lastStreamIdOut, lastStreamIdIn, streams, closed,
                   obj, fp, pump, hist>>

\* StreamWriter.Send(data): SendHeaders(false) first while nFramesSent is 0,
\* its result dropped; then the data frame, straight through
\* session.WriteFrame.  `okH` and `okD`: the transport takes the header frame,
\* the data frame.
Send(okH, okD) ==
    /\ Len(wire) + 1 < MaxWire
    /\ LET first == sw.nFramesSent = 0
           log == IF first THEN Written(wire, HeaderFrame(sw, FALSE), okH) ELSE wire
       IN /\ wire' = Written(log, DataFrame, okD)
          /\ sw' = IF first THEN [sw EXCEPT !.nFramesSent = writeFrame(@, okH)] ELSE sw
    /\ last' = Op("Send", 0, ~okD, <<>>, okD)
    /\ UNCHANGED <<cfg, app, Server, lastStreamIdOut, lastStreamIdIn, streams, closed,
                   obj, fp, pump, hist>>

(* -------------------------------------------------------------------- Pipe *)

\* A message that carries headers: the frame-routing path makes one of a
\* SYN_STREAM frame, and a data message of a DATA frame.
IsHeaderMsg(m) == m.kind = "SYN_STREAM"

\* The writer and the frames on the transport after writer.SendHeaders(final).
AfterSendHeaders(w, log, final, ok) ==
    [sw |-> [w EXCEPT !.nFramesSent = writeFrame(@, ok)],
     wire |-> Written(log, HeaderFrame(w, final), ok)]

\* The writer and the frames on the transport after writer.Send(data).
AfterSend(w, log, okH, okD) ==
    LET h == IF w.nFramesSent = 0
             THEN AfterSendHeaders(w, log, FALSE, okH)
             ELSE [sw |-> w, wire |-> log]
    IN [sw |-> h.sw, wire |-> Written(h.wire, DataFrame, okD)]

\* One turn of the loop of reader.Pipe(writer), reader the Reader of stream
\* `id` and writer the StreamWriter sw: Receive, then SendHeaders(false) for
\* a header message and Send for a data message, their results dropped.  On
\* a queue closed and drained the Receive does not return.  One Reader is
\* piped in a behaviour, and the transport takes every frame.
PipeStep(id) ==
    /\ Quiet
    /\ id \in used
    /\ \A j \in Ids \ {id} : got[j] = <<>>
    /\ ~Crashed(id)
    /\ IF obj[id].q # <<>>
       THEN LET m == Head(obj[id].q)
                after == IF IsHeaderMsg(m)
                         THEN AfterSendHeaders(sw, wire, FALSE, TRUE)
                         ELSE AfterSend(sw, wire, TRUE, TRUE)
            IN /\ obj' = [obj EXCEPT ![id].q = Tail(@)]
               /\ got' = [got EXCEPT ![id] = Append(@, m)]
               /\ sw' = after.sw
               /\ wire' = after.wire
       ELSE /\ obj[id].inClosed
            /\ got' = [got EXCEPT ![id] = Append(@, ReceiveReturn(MQReceiveAtEnd))]
            /\ UNCHANGED <<obj, sw, wire>>
    /\ last' = Op("Pipe", id, FALSE, <<>>, TRUE)
    /\ UNCHANGED <<cfg, app, Server, lastStreamIdOut, lastStreamIdIn, streams, closed,
                   fp, pump, used, opened, arrived, pumpCloses, nCreated, nRouted>>

(* ------------------------------------------------------------------- specs *)

\* NewSession(framer, handler, server), with the frame pump at `pc`: at the
\* head of its loop ("run": there is a handler), or before the GOAWAY frame it
\* writes when there is none ("start").
InitSession(c, pcs) ==
    /\ cfg = c
    /\ app = [t \in Threads |-> [pc |-> "idle", id |-> 0]]
    /\ Server \in BOOLEAN
    /\ lastStreamIdOut = 0
    /\ lastStreamIdIn = 0
    /\ streams = {}
    /\ closed = FALSE
    /\ obj = [id \in Ids |-> NewStream(FALSE)]
    /\ fp \in [pc : pcs, id : {0}]
    /\ pump = [id \in Ids |-> "none"]
    /\ last = Op("NewSession", 0, FALSE, <<>>, TRUE)
    /\ used = {}
    /\ opened = <<>>
    /\ arrived = [id \in Ids |-> <<>>]
    /\ got = [id \in Ids |-> <<>>]
    /\ pumpCloses = [id \in Ids |-> 0]
    /\ nCreated = 0
    /\ nRouted = 0

\* The session's operations and its frame pump.
NextSession ==
    \/ OpenStream
    \/ \E id \in SomeIds : CloseStream(id)
    \/ Close
    \/ ReadError
    \/ \E f \in Frames : processFrame(f, TRUE)
    \/ FpCheckOutput
    \/ FpDelete
    \/ \E id \in Ids : CloseOutput(id)

\* The outbound pumps.
NextPumps ==
    \/ \E id \in Ids : PumpWriteError(id)
    \/ \E id \in Ids : PumpCopyEnd(id)
    \/ \E id \in Ids : PumpCheck(id)
    \/ \E id \in Ids : PumpDelete(id)

\* The StreamWriter is not used.
NoWriter ==
    /\ sw = [IsMine |-> FALSE, nFramesSent |-> 0]
    /\ wire = <<>>

Init ==
    /\ InitSession([atomic |-> TRUE, trace |-> TRUE, queues |-> FALSE,
                    streams |-> MaxStreams, frames |-> 0], {"run"})
    /\ NoWriter

Next == NextSession

\* A session with a handler, every handler run to its end, the Readers'
\* queues not kept.  An outbound pump touches the session only by
\* CloseStream(id), which the application's CloseStream does as well: the
\* pumps are left to SpecRace.
Spec == Init /\ [][Next]_vars

\* The last id of each direction below 2^IdBits.
LastLocalId == IF Server THEN UintMod - 2 ELSE UintMod - 1

LastRemoteId == IF Server THEN UintMod - 1 ELSE UintMod - 2

\* The ids OpenStream has returned once lastStreamIdOut is LastLocalId.
LocalIdsSoFar ==
    [i \in 1 .. ((LastLocalId + 1) \div 2) |-> (IF Server THEN 2 ELSE 1) + 2 * (i - 1)]

\* A session that has lived long: each side has opened every id of its
\* parity once, in sequence (2^31 streams for uint32), and those streams have
\* been closed in both directions and removed, but for the first stream the
\* peer opened, which may still be there.
InitAged ==
    /\ cfg = [atomic |-> TRUE, trace |-> TRUE, queues |-> FALSE,
              streams |-> MaxStreams, frames |-> 0]
    /\ app = [t \in Threads |-> [pc |-> "idle", id |-> 0]]
    /\ NoWriter
    /\ Server \in BOOLEAN
    /\ lastStreamIdOut = LastLocalId
    /\ lastStreamIdIn = LastRemoteId
    /\ streams \in {{}, {IF Server THEN 1 ELSE 2}}
    /\ closed = FALSE
    /\ obj = [id \in Ids |-> IF id = 0 \/ id \in streams
                              THEN NewStream(FALSE)
                              ELSE DeadStream(isLocalId(id))]
    /\ fp = [pc |-> "run", id |-> 0]
    /\ pump = [id \in Ids |-> IF id = 0 THEN "none"
                               ELSE IF id \in streams THEN "copy" ELSE "done"]
    /\ last = Op("CloseStream", LastLocalId, FALSE, <<>>, TRUE)
    /\ used = Ids \ {0}
    /\ opened = LocalIdsSoFar
    /\ arrived = [id \in Ids |-> <<>>]
    /\ got = [id \in Ids |-> <<>>]
    /\ pumpCloses = [id \in Ids |-> 0]
    /\ nCreated = 0
    /\ nRouted = 0

\* The session of Spec, but starting where the id counters are about to wrap.
SpecWrap == InitAged /\ [][NextSession]_vars

InitDeliver ==
    /\ InitSession([atomic |-> TRUE, trace |-> FALSE, queues |-> TRUE,
                    streams |-> MaxStreamsDeep, frames |-> MaxFrames], {"run"})
    /\ NoWriter

NextDeliver ==
    \/ NextSession
    \/ \E id \in Ids : Receive(id)

\* The session of Spec with the Readers' queues kept and a consumer per stream.
SpecDeliver == InitDeliver /\ [][NextDeliver]_vars

InitRace ==
    /\ InitSession([atomic |-> FALSE, trace |-> FALSE, queues |-> FALSE,
                    streams |-> MaxStreamsDeep, frames |-> 0], {"run"})
    /\ NoWriter

NextRace ==
    \/ NextSession
    \/ NextPumps

\* The threads interleaved at every access to the stream table.
SpecRace == InitRace /\ [][NextRace]_vars

\* newStream(session, id, IsMine) of a stream of either side.
InitWriter ==
    /\ InitSession([atomic |-> TRUE, trace |-> FALSE, queues |-> FALSE,
                    streams |-> 0, frames |-> 0], {"run"})
    /\ sw \in [IsMine : BOOLEAN, nFramesSent : {0}]
    /\ wire = <<>>

NextWriter ==
    \/ \E final \in BOOLEAN, ok \in BOOLEAN : SendHeaders(final, ok)
    \/ \E okH \in BOOLEAN, okD \in BOOLEAN : Send(okH, okD)

\* One StreamWriter, its calls one after the other, the transport failing at will.
SpecWriter == InitWriter /\ [][NextWriter]_vars

NextContain ==
    \/ OpenStream
    \/ ReadError
    \/ \E f \in Frames : processFrame(f, TRUE)
    \/ FpCheckOutput
    \/ FpDelete
    \/ \E id \in Ids : CloseOutput(id)
    \/ NextPumps

\* The session of Spec with its outbound pumps, whose writes may fail; the
\* application opens streams and closes their Writers, and leaves the
\* removal of the streams to the pumps.
SpecContain == Init /\ [][NextContain]_vars

InitFail ==
    /\ InitSession([atomic |-> TRUE, trace |-> TRUE, queues |-> FALSE,
                    streams |-> MaxStreams, frames |-> 0], {"start", "run"})
    /\ NoWriter

NextFail ==
    \/ \E wok \in BOOLEAN : RunStart(wok)
    \/ OpenStream
    \/ \E id \in SomeIds : CloseStream(id)
    \/ Close
    \/ ReadError
    \/ \E f \in Frames : \E wok \in BOOLEAN : processFrame(f, wok)
    \/ FpCheckOutput
    \/ FpDelete
    \/ \E id \in Ids : CloseOutput(id)
    \/ NextPumps

\* A session with or without a handler, its outbound pumps, and a transport
\* that fails writes at will; every handler run to its end.
SpecFail == InitFail /\ [][NextFail]_vars

NextConsume ==
    \/ NextDeliver
    \/ \E id \in Ids : ReceiveAtEnd(id)

\* The session of SpecDeliver, whose consumers go on calling Receive when
\* the Reader is closed and drained.
SpecConsume == InitDeliver /\ [][NextConsume]_vars

InitPipe ==
    /\ InitSession([atomic |-> TRUE, trace |-> FALSE, queues |-> TRUE,
                    streams |-> MaxStreamsDeep, frames |-> MaxFrames], {"run"})
    /\ sw \in [IsMine : BOOLEAN, nFramesSent : {0}]
    /\ wire = <<>>

NextPipe ==
    \/ NextSession
    \/ \E id \in Ids : PipeStep(id)

\* The session of SpecDeliver, a stream's Reader drained by Pipe into a
\* StreamWriter that has sent nothing yet.
SpecPipe == InitPipe /\ [][NextPipe]_vars

InitOpen ==
    /\ InitSession([atomic |-> FALSE, trace |-> FALSE, queues |-> FALSE,
                    streams |-> MaxStreamsDeep, frames |-> 0], {"run"})
    /\ NoWriter

NextOpen ==
    \/ \E t \in Threads : OpenBegin(t)
    \/ \E t \in Threads : OpenValid(t)
    \/ \E t \in Threads : OpenExists(t)
    \/ \E t \in Threads : OpenStore(t)
    \/ \E t \in Threads : OpenMark(t)
    \/ \E t \in Threads : OpenReturn(t)
    \/ \E id \in SomeIds : CloseStream(id)
    \/ \E f \in Frames : processFrame(f, TRUE)
    \/ FpCheckOutput
    \/ FpDelete
    \/ \E id \in Ids : CloseOutput(id)

\* Two application threads in OpenStream at the same time, beside the frame
\* pump and the application's CloseStream calls.
SpecOpen == InitOpen /\ [][NextOpen]_vars

(* ------------------------------------------------------------------ claims *)

\* C1: the first successful OpenStream returns id 1 on a client and 2 on a
\* server, and each later successful OpenStream returns an id exactly 2
\* greater than the one before, whatever frames arrive and whatever is
\* closed in between.
C1_OpenIdsStepByTwo ==
    /\ opened # <<>> => opened[1] = (IF Server THEN 2 ELSE 1)
    /\ \A i \in 2 .. Len(opened) : opened[i] = opened[i - 1] + 2

\* The next incoming id as the claim words it, its "+ 2" read as the
\* arithmetic of the id's type.
ExpectedIn(id) ==
    /\ ~isLocalId(id)
    /\ id = (IF lastStreamIdIn = 0
             THEN (IF Server THEN 1 ELSE 2)
             ELSE (lastStreamIdIn + 2) % UintMod)

\* C2: processFrame of a SYN_STREAM frame with a nonzero id registers the
\* stream iff the id has the remote parity and is the expected next incoming
\* id; otherwise it writes exactly one RST_STREAM(ProtocolError) frame for
\* that id and registers nothing.  (Every action leaves its own name in
\* last.op, so last'.op tells which action a step is.)
C2_SynAcceptedIffExpected ==
    [][(last'.op = "SYN_STREAM" /\ last'.id # 0) =>
          IF ExpectedIn(last'.id)
          THEN /\ last'.id \notin streams
               /\ streams' = streams \cup {last'.id}
               /\ last'.wrote = <<>>
          ELSE /\ last'.wrote = <<RstStreamFrame(last'.id)>>
               /\ streams' = streams
               /\ used' = used]_vars

\* C3: an id that has been registered and then removed is never registered
\* again, also when the id counter goes past its maximum.
C3_RemovedIdNeverRegisteredAgain ==
    [][\A id \in used \ streams : id \notin streams']_vars

\* C4 as claimed: in every state an id is in the table iff its stream has
\* been created and its two directions are not both closed.
C4_InTableIffNotFullyClosed ==
    \A id \in Ids :
        id \in streams <=> (id \in used /\ ~(obj[id].inClosed /\ obj[id].outClosed))

\* A pump stands between seeing stream `id` closed on both sides and the end
\* of the CloseStream(id) that follows.
RemovalPending(id) ==
    \/ fp.id = id /\ fp.pc \in {"chkOut", "del"}
    \/ pump[id] \in {"copy", "errDel", "chk", "chkDel"}

\* C4 as amended: every id in the table has been created; a created id that
\* is not in the table has its Reader closed (its Writer may be open); and a
\* stream closed on both sides is in the table only while the frame pump or
\* its outbound pump is on its way to CloseStream.
C4_TableAndHalfClose ==
    /\ streams \subseteq used
    /\ \A id \in used \ streams : obj[id].inClosed
    /\ \A id \in streams : (obj[id].inClosed /\ obj[id].outClosed) => RemovalPending(id)

\* A stream has been removed with its Writer open, the outbound pump still copying.
C4_Witness ==
    \E id \in used \ streams :
        obj[id].inClosed /\ ~obj[id].outClosed /\ pump[id] = "copy"

\* C5: CloseStream(id) of an unregistered id returns an error and changes
\* neither the table, the high-water marks nor the closed flag; of a
\* registered id it closes the Reader, removes exactly that id and returns
\* nil, so that a second CloseStream(id) returns an error.
C5_CloseStreamContract ==
    [][last'.op = "CloseStream" =>
          IF last'.id \in streams
          THEN /\ ~last'.err
               /\ streams' = streams \ {last'.id}
               /\ obj'[last'.id].inClosed
               /\ last'.id \notin streams'
          ELSE /\ last'.err
               /\ UNCHANGED <<streams, lastStreamIdOut, lastStreamIdIn, closed, obj>>]_vars

\* One of two registered streams has just been closed by CloseStream.
C5_Witness ==
    /\ last.op = "CloseStream"
    /\ ~last.err
    /\ last.id \in used \ streams
    /\ streams # {}

\* C6: of the CloseStream calls the frame pump and the outbound pump make for
\* a stream closed on both sides, exactly one succeeds: never two.
C6_PumpsCloseAtMostOnce ==
    \A id \in Ids : pumpCloses[id] <= 1

IsOpening(m) == m.kind \in {"SYN_STREAM", "SYN_REPLY"}

IsHeader(m) == m.kind # "DATA"

\* The number of header frames among the first n frames on the wire.
HeadersBefore(n) == Cardinality({j \in 1 .. n : IsHeader(wire[j])})

OpeningKind == IF sw.IsMine THEN "SYN_STREAM" ELSE "SYN_REPLY"

C8_HeaderBeforeData ==
    \A i \in 1 .. Len(wire) :
        wire[i].kind = "DATA" => \E j \in 1 .. (i - 1) : IsOpening(wire[j])

RECURSIVE TakenFrom(_, _, _, _)
\* Of the frames arr[i..], read for a stream opened locally (mine) or by the
\* peer, those that are not refused: not a SYN_STREAM frame, but for the one
\* that opened a remote stream, and not after a frame that carried FIN.
TakenFrom(arr, i, mine, open) ==
    IF i > Len(arr)
    THEN <<>>
    ELSE LET take == open /\ ~(arr[i].kind = "SYN_STREAM" /\ (mine \/ i > 1))
         IN (IF take THEN <<arr[i]>> ELSE <<>>)
                \o TakenFrom(arr, i + 1, mine, open /\ ~(take /\ arr[i].fin))

C10_UnknownStreamIsReset ==
    [][(last'.op = "DATA" /\ last'.id # 0 /\ last'.id \notin streams) =>
          /\ last'.wrote = <<RstStreamFrame(last'.id)>>
          /\ last'.err
          /\ UNCHANGED <<streams, lastStreamIdOut, lastStreamIdIn, obj, arrived, fp>>]_vars

\* A data frame for a stream that was closed has just been answered with
\* RST_STREAM, another stream being registered.
C10_Witness ==
    /\ last.op = "DATA"
    /\ last.id \in used \ streams
    /\ last.wrote = <<RstStreamFrame(last.id)>>
    /\ streams # {}

\* C11: the steps of a per-stream failure (a SYN_STREAM frame refused, a
\* frame for an unknown stream, a frame the stream's Reader refuses, a write
\* of the stream's outbound pump that fails) and the CloseStream calls they
\* lead to never set the closed flag, never stop the frame pump and never
\* remove or change a stream other than the one the step is about.
C11_StreamFailureIsContained ==
    [][(\/ last'.op \in {"SYN_STREAM", "DATA"} /\ last'.id # 0 /\ last'.err
        \/ last'.op = "Copy" /\ last'.err
        \/ last'.op \in {"FpDelete", "PumpDelete"}) =>
          /\ closed' = closed
          /\ fp'.pc = "stopped" <=> fp.pc = "stopped"
          /\ \A id \in Ids \ {last'.id} :
                 /\ id \in streams' <=> id \in streams
                 /\ obj'[id] = obj[id]]_vars

\* An outbound pump whose write failed has just removed its stream by
\* CloseStream; another stream is registered and the session is open.
C11_Witness ==
    /\ last.op = "PumpDelete"
    /\ pump[last.id] = "chk"
    /\ last.id \notin streams
    /\ streams # {}
    /\ ~closed
    /\ fp.pc = "run"

\* The steps of the frame pump.
PumpOps == {"run", "ReadError", "SYN_STREAM", "DATA", "PING", "FpCheckOutput", "FpDelete"}

\* C12: when ReadFrame fails the frame pump stops for good (no ReadFrame
\* and no processFrame step follows), the closed flag is set, and every
\* stream registered then has its Reader closed and is out of the table.
C12_ReadErrorClosesSession ==
    [][/\ last'.op = "ReadError" =>
             /\ fp'.pc = "stopped"
             /\ closed'
             /\ \A id \in streams : obj'[id].inClosed /\ id \notin streams'
       /\ fp.pc = "stopped" => fp'.pc = "stopped" /\ last'.op \notin PumpOps]_vars

\* ReadFrame has just failed: the pump has stopped, the session is closed,
\* and the two streams created are out of the table with their Readers
\* closed, the Writer of one of them still open.
C12_Witness ==
    /\ last.op = "ReadError"
    /\ fp.pc = "stopped"
    /\ closed
    /\ streams = {}
    /\ Cardinality(used) = 2
    /\ \A id \in used : obj[id].inClosed
    /\ \E id \in used : ~obj[id].outClosed

\* C13: every failed WriteFrame of the core (the GOAWAY frame of run, an
\* RST_STREAM frame of processFrame, a frame of an outbound pump) stops the
\* frame pump and sets the closed flag.
C13_WriteErrorIsFatal ==
    [][~last'.wok => fp'.pc = "stopped" /\ closed']_vars

\* C14: when Close() returns the closed flag is set, the table is empty and
\* the Reader of every stream that was registered is closed; and no step
\* sets the closed flag back.
C14_CloseEmptiesTable ==
    [][/\ last'.op = "Close" =>
             /\ closed'
             /\ NStreams' = 0
             /\ \A id \in streams : obj'[id].inClosed
       /\ closed => closed']_vars

\* Close() has just returned: the flag is set, and the two streams created
\* are out of the table with their Readers closed and their Writers open.
C14_Witness ==
    /\ last.op = "Close"
    /\ closed
    /\ NStreams = 0
    /\ Cardinality(used) = 2
    /\ \A id \in used : obj[id].inClosed /\ ~obj[id].outClosed

\* C15: a Receive on a Reader closed and drained returns the end-of-stream
\* error like any other result; no Receive ends in a crash of the consumer.
C15_ReceiveReturnsEndOfStream ==
    \A id \in used : \A i \in 1 .. Len(got[id]) : got[id][i] # Panic

RECURSIVE PipeFrames(_, _, _, _)
\* The frames on the transport when a StreamWriter that has written n frames
\* does one SendHeaders(false) per header message and one Send per data
\* message of ms[i..], in that order, every write taken.
PipeFrames(ms, i, mine, n) ==
    IF i > Len(ms)
    THEN <<>>
    ELSE LET w == [IsMine |-> mine, nFramesSent |-> n]
             after == IF IsHeaderMsg(ms[i])
                      THEN AfterSendHeaders(w, <<>>, FALSE, TRUE)
                      ELSE AfterSend(w, <<>>, TRUE, TRUE)
         IN after.wire \o PipeFrames(ms, i + 1, mine, after.sw.nFramesSent)

\* C16: Pipe does on the writer one header send per header message and one
\* data send per data message it takes from the Reader, in the order they
\* were queued, and at the end of the stream it returns (without an error):
\* it does not end in a crash.
C16_PipeForwardsThenReturns ==
    \A id \in used :
        got[id] # <<>> =>
            /\ ~Crashed(id)
            /\ wire = PipeFrames(got[id], 1, sw.IsMine, 0)

\* C17: a newStream that fails (a SYN_STREAM frame of the wrong parity, out
\* of sequence or for a registered id; an OpenStream whose id is taken)
\* changes neither the table, nor any registered stream, nor a high-water
\* mark; and lastStreamIdOut moves only in an OpenStream that succeeds, to
\* the id it registers.
C17_FailedNewStreamChangesNothing ==
    [][/\ (last'.op \in {"SYN_STREAM", "OpenStream"} /\ last'.id # 0 /\ last'.err) =>
             UNCHANGED <<streams, obj, lastStreamIdOut, lastStreamIdIn>>
       /\ lastStreamIdOut' # lastStreamIdOut =>
             /\ last'.op = "OpenStream"
             /\ ~last'.err
             /\ lastStreamIdOut' = last'.id
             /\ last'.id \in streams' \ streams]_vars

\* A second SYN_STREAM frame for a registered stream has just been refused.
C17_Witness ==
    /\ last.op = "SYN_STREAM"
    /\ last.err
    /\ last.id \in streams
    /\ last.id = lastStreamIdIn

\* C18: nFramesSent is the number of frames, header frames and data frames
\* alike, that the writer has written to the transport with success (as a
\* uint32: modulo 2^IdBits here).
C18_CounterCountsEveryFrame ==
    sw.nFramesSent = Len(wire) % UintMod

\* C19: a Send on a writer whose nFramesSent is 0, the SendHeaders(false) it
\* makes failing (nFramesSent is still 0 after the call), writes no data
\* frame: the frames on the transport are as they were.  The only other
\* call, SendHeaders, writes nothing when it fails.
C19_FailedHeaderAbortsSend ==
    [][(sw.nFramesSent = 0 /\ sw'.nFramesSent = 0) => wire' = wire]_vars

\* C20: of two OpenStream calls that run at the same time no two return the
\* same id, none stores its stream over an entry of the table, and when
\* both have returned lastStreamIdOut is the highest id returned.
C20_ConcurrentOpensAreDistinct ==
    [][/\ \A i \in 1 .. Len(opened') : \A j \in 1 .. Len(opened') :
             i # j => opened'[i] # opened'[j]
       /\ \A t \in Threads :
             (app[t].pc = "store" /\ app'[t].pc = "mark") => app[t].id \notin streams
       /\ (opened' # <<>> /\ \A t \in Threads : app'[t].pc = "idle") =>
             /\ \E i \in 1 .. Len(opened') : opened'[i] = lastStreamIdOut'
             /\ \A i \in 1 .. Len(opened') : opened'[i] <= lastStreamIdOut']_vars

====
